---- MODULE Spec2Model ----
(***************************************************************************)
(* Model of the recommendation engine of sequring/sculptor                 *)
(* (internal/usecase/recommender.go, RecommenderUseCase).                  *)
(*                                                                         *)
(* The engine is sequential code that blocks on its two collaborators      *)
(* (DeploymentGateway, MetricsGateway).  Every collaborator call is one    *)
(* action; the code that runs between that call's return and the next     *)
(* call is part of the same action.  The collaborators' answers are the    *)
(* nondeterministic inputs of the actions.                                 *)
(*                                                                         *)
(* Numbers.  Byte counts are Go int64 values and are kept at 64 bits as    *)
(* four 16-bit limbs (two's complement, least significant limb first), so  *)
(* that the wrap-around of int64 multiplication is the code's.  CPU        *)
(* metrics are float64 values that are dyadic rationals num/den with a     *)
(* power-of-two den; on those float64 arithmetic is exact.  Memory metrics *)
(* are float64 values sign * (mag + half/2) with an integer mag.           *)
(***************************************************************************)
EXTENDS Integers, Sequences, FiniteSets, TLC

----------------------------------------------------------------------------
(* Bounds of the model *)

\* longest list of main containers of a deployment
MaxContainers == 2
\* longest list of init containers of a deployment
MaxInitContainers == 1
\* the most pods the deployment's selector matches
MaxPods == 2
\* the most samples an instant vector of Prometheus holds
MaxSamples == 2

----------------------------------------------------------------------------
(* Go int64 as four 16-bit limbs *)

LimbBase == 2 ^ 16
LimbSign == 2 ^ 15

I64Zero == <<0, 0, 0, 0>>

\* x + y mod 2^64
I64Add(x, y) ==
    LET s1 == x[1] + y[1]
        s2 == x[2] + y[2] + (s1 \div LimbBase)
        s3 == x[3] + y[3] + (s2 \div LimbBase)
        s4 == x[4] + y[4] + (s3 \div LimbBase)
    IN  <<s1 % LimbBase, s2 % LimbBase, s3 % LimbBase, s4 % LimbBase>>

\* -x mod 2^64 (two's complement)
I64Neg(x) ==
    I64Add(<<LimbBase - 1 - x[1], LimbBase - 1 - x[2],
             LimbBase - 1 - x[3], LimbBase - 1 - x[4]>>, <<1, 0, 0, 0>>)

\* the int64 of a small integer n, |n| < 2^31
I64(n) ==
    IF n >= 0 THEN <<n % LimbBase, n \div LimbBase, 0, 0>>
    ELSE I64Neg(<<(-n) % LimbBase, (-n) \div LimbBase, 0, 0>>)

I64IsNeg(x) == x[4] >= LimbSign

\* x * k mod 2^64 for a small constant 0 <= k < 2^15: Go's wrapping int64 product
I64MulSmall(x, k) ==
    LET p1 == x[1] * k
        p2 == x[2] * k + (p1 \div LimbBase)
        p3 == x[3] * k + (p2 \div LimbBase)
        p4 == x[4] * k + (p3 \div LimbBase)
    IN  <<p1 % LimbBase, p2 % LimbBase, p3 % LimbBase, p4 % LimbBase>>

\* unsigned quotient of the 64-bit pattern x by a small d, 0 < d < 2^15
I64UDivSmall(x, d) ==
    LET q4 == x[4] \div d
        t3 == (x[4] % d) * LimbBase + x[3]
        q3 == t3 \div d
        t2 == (t3 % d) * LimbBase + x[2]
        q2 == t2 \div d
        t1 == (t2 % d) * LimbBase + x[1]
        q1 == t1 \div d
    IN  <<q1, q2, q3, q4>>

\* Go's x / d on int64: the quotient truncated toward zero
I64DivSmall(x, d) ==
    IF I64IsNeg(x) THEN I64Neg(I64UDivSmall(I64Neg(x), d))
    ELSE I64UDivSmall(x, d)

\* unsigned x < y on the bit patterns
I64ULess(x, y) ==
    \/ x[4] < y[4]
    \/ x[4] = y[4] /\ x[3] < y[3]
    \/ x[4] = y[4] /\ x[3] = y[3] /\ x[2] < y[2]
    \/ x[4] = y[4] /\ x[3] = y[3] /\ x[2] = y[2] /\ x[1] < y[1]

\* Go's x < y on int64
I64Less(x, y) ==
    IF I64IsNeg(x) # I64IsNeg(y) THEN I64IsNeg(x) ELSE I64ULess(x, y)

I64Leq(x, y) == ~I64Less(y, x)

\* the smallest and the largest int64
MinInt64 == <<0, 0, 0, LimbSign>>
MaxInt64 == <<LimbBase - 1, LimbBase - 1, LimbBase - 1, LimbSign - 1>>

\* an int64 of magnitude below 2^16 as a plain integer
I64ToSmallInt(x) == IF I64IsNeg(x) THEN -(I64Neg(x)[1]) ELSE x[1]

\* 2^e as an int64, 0 <= e <= 62
I64Pow2(e) ==
    [i \in 1..4 |-> IF i = (e \div 16) + 1 THEN 2 ^ (e % 16) ELSE 0]

----------------------------------------------------------------------------
(* float64 values and Go's conversions *)

\* a / b truncated toward zero (b > 0): what int64(f) does to a float64 quotient
TruncDiv(a, b) == IF a >= 0 THEN a \div b ELSE -((-a) \div b)

\* a CPU metric: the float64 num/den cores, den a power of two
CPUUnit == 2 ^ 7
Cores(n) == [num |-> n, den |-> CPUUnit]

\* a memory metric: the float64 sign * (mag + half/2) bytes
Bytes(neg, mag, half) == [neg |-> neg, mag |-> mag, half |-> half]

\* int64(f) for a memory metric f: the fraction is dropped
Int64OfFloat(f) == IF f.neg THEN I64Neg(f.mag) ELSE f.mag

\* f > 0 for a memory metric f
FloatPositive(f) == ~f.neg /\ (f.mag # I64Zero \/ f.half)

----------------------------------------------------------------------------
(* The package constants of recommender.go *)

\* spikinessThreshold = 2.0
spikinessThreshold == 2
\* spikinessCPUBuffer = 1.25 = 5/4
spikinessCPUBufferNum == 5
spikinessCPUBufferDen == 4
\* oomMemoryMultiplier = 1.5 = 3/2
oomMemoryMultiplierNum == 3
oomMemoryMultiplierDen == 2
mainContainerMemoryBufferPercent == 120
initContainerMemoryBufferPercent == 115
initMemoryDefault == [digits |-> 128, suffix |-> "Mi"]
initCPURequestDefault == [digits |-> 100, suffix |-> "m"]
initCPULimitDefault == [digits |-> 1000, suffix |-> "m"]
minCPURequestMilli == 50
minCPULimitMilli == 100
minMemoryBytes == I64(64 * 1024 * 1024)
\* the fallback of the OOM branch taken from the default of the init containers
oomFallbackBytes_InitDefault == I64(128 * 1024 * 1024)
\* the literal 1024*1024*512 of the OOM branch without a recorded limit
oomFallbackBytes == I64(1024 * 1024 * 512)

\* resource.MustParse of the quantity strings the code uses: "<n>Mi" is
\* n * 2^20 bytes, "<n>m" is n thousandths
MustParse(q) ==
    IF q.suffix = "Mi" THEN [bytes |-> I64(q.digits * 1024 * 1024)]
    ELSE [milli |-> q.digits]

----------------------------------------------------------------------------
(* Values of the data model *)

\* a []NamedRecommendation: the nil slice, or a slice with its items
NilSlice == [nil |-> TRUE, items |-> <<>>]
Slice(s) == [nil |-> FALSE, items |-> s]

\* a *resource.Quantity memory limit: nil, or a byte count
NilLimit == [nil |-> TRUE, value |-> 0]
Limit(v) == [nil |-> FALSE, value |-> v]

\* a nil error is the empty chain of messages; fmt.Errorf("...: %w") prepends
NoError == <<>>
Wrap(msg, e) == <<msg>> \o e

\* the deployment pointer before GetDeployment has returned one
NoDeployment == [Containers |-> <<>>, InitContainers |-> <<>>, resolved |-> FALSE]

----------------------------------------------------------------------------
(* The inputs: the deployment in the cluster and the collaborators' answers *)

ContainerPool == <<"sidecar", "app", "worker", "proxy">>
InitContainerPool == <<"init-setup", "init-db", "init-perms">>

Deployments ==
    { [Containers |-> SubSeq(ContainerPool, 1, n),
       InitContainers |-> SubSeq(InitContainerPool, 1, m),
       resolved |-> TRUE] : n \in 0..MaxContainers, m \in 0..MaxInitContainers }

Targets ==
    {""} \cup {ContainerPool[i] : i \in 1..MaxContainers}
         \cup {InitContainerPool[i] : i \in 1..MaxInitContainers}
         \cup {"ghost"}

Operations == {"CalculateForDeployment", "CalculateForInitContainers", "CalculateForAll"}

\* previous memory limits a killed container can have had (bytes)
LimitValues == {33554432, 268435457}

\* answers of CheckForOOMKilledEvents: (isOOMKilled, currentLimit, err)
OOMResponses ==
    {[isOOM |-> FALSE, limit |-> NilLimit, err |-> e] : e \in BOOLEAN}
    \cup {[isOOM |-> TRUE, limit |-> NilLimit, err |-> FALSE]}
    \cup {[isOOM |-> TRUE, limit |-> Limit(v), err |-> FALSE] : v \in LimitValues}
    \cup {[isOOM |-> TRUE, limit |-> Limit(268435457), err |-> TRUE]}

\* what k8s.go's CheckForOOMKilledEvents returns: (bool, podName, limit, err)
OOMResult(killed, podName, limit, e) ==
    [isOOM |-> killed, podName |-> podName, limit |-> limit, err |-> e]
NoOOMResult == OOMResult(FALSE, "", NilLimit, NoError)

\* float64 byte values a memory query can return
MemoryValues ==
    { Bytes(FALSE, I64Zero, FALSE),
      Bytes(FALSE, I64Zero, TRUE),
      Bytes(FALSE, I64(55924053), TRUE),
      Bytes(FALSE, I64(104857600), FALSE),
      Bytes(FALSE, I64Pow2(57), FALSE) }

\* answers of a memory query: (value, err)
MemoryResponses ==
    {[value |-> v, err |-> FALSE] : v \in MemoryValues}
    \cup {[value |-> Bytes(FALSE, I64Zero, FALSE), err |-> TRUE],
          [value |-> Bytes(FALSE, I64(104857600), FALSE), err |-> TRUE]}

\* answers of the maximum-memory query of an init container: (value, err)
InitMemoryResponses ==
    {[value |-> Bytes(FALSE, I64Zero, FALSE), err |-> FALSE],
     [value |-> Bytes(FALSE, I64Zero, TRUE), err |-> FALSE],
     [value |-> Bytes(FALSE, I64(104857600), FALSE), err |-> FALSE],
     [value |-> Bytes(FALSE, I64(104857600), FALSE), err |-> TRUE]}

\* answers of the p90 and p99 CPU queries, in 1/CPUUnit cores: (value, err)
CPUResponses ==
    {[value |-> Cores(n), err |-> FALSE] : n \in {0, 6, 17}}
    \cup {[value |-> Cores(17), err |-> TRUE]}

\* answers of the median CPU query, in 1/CPUUnit cores: (value, err)
CPUMedianResponses ==
    {[value |-> Cores(n), err |-> FALSE] : n \in {0, 3, 6}}
    \cup {[value |-> Cores(3), err |-> TRUE]}

\* a float64 sample of Prometheus: a number, NaN, or an infinity
Number(n) == [kind |-> "number", n |-> n]
NaN == [kind |-> "NaN", n |-> 0]
PosInf == [kind |-> "+Inf", n |-> 0]
NegInf == [kind |-> "-Inf", n |-> 0]

\* math.IsNaN(v) and math.IsInf(v, 0)
IsNaN(v) == v.kind = "NaN"
IsInf(v) == v.kind \in {"+Inf", "-Inf"}

\* the values of the samples of an instant vector
SampleValues == {Number(0), Number(1024), Number(-1), NaN, PosInf, NegInf}

\* the instant vectors of at most MaxSamples samples
Vectors == UNION {[1..n -> SampleValues] : n \in 0..MaxSamples}

\* the names executeQuery is called with by the six Get methods
QueryNames ==
    {"P99 Memory Usage", "P90 CPU for Request", "P99 CPU for Limit",
     "P50 CPU for Spikiness", "Max Memory Usage for Init Container", "Memory StdDev"}

\* what api.Query returns: (result, warnings, err); the result is a
\* model.Value of one of the four types of the Prometheus data model
ApiReply(type, vector, warnings, e) ==
    [type |-> type, vector |-> vector, warnings |-> warnings, err |-> e]
NoReply == ApiReply("none", <<>>, FALSE, FALSE)
ApiReplies ==
    {ApiReply("none", <<>>, w, TRUE) : w \in BOOLEAN}
    \cup {ApiReply(t, <<>>, w, FALSE) : t \in {"matrix", "scalar", "string"}, w \in BOOLEAN}
    \cup {ApiReply("vector", v, w, FALSE) : v \in Vectors, w \in BOOLEAN}

----------------------------------------------------------------------------
(* The state *)

VARIABLES
    op,                    \* the operation the caller invoked
    targetContainerName,   \* its targetContainerName argument ("" when absent)
    deployment,            \* the deployment as it is in the cluster
    pc,                    \* the collaborator call the engine issues next
    half,                  \* the sub-calculation that is running: "main" or "init"
    d,                     \* the deployment GetDeployment returned
    containersToAnalyze,   \* the names selected for analysis
    idx,                   \* position of the loop over containersToAnalyze
    finalRecommendations,  \* the slice the running loop appends to
    isOOM, currentLimit,   \* the answer of the OOM check for this container
    memRecommendation,     \* int64 bytes, before the floor
    cpuP90, cpuP99,        \* the CPU metrics fetched so far for this container
    mainRecs, initRecs,    \* what the main / init sub-calculation returned
    allRecs,               \* the *AllRecommendations CalculateForAll returned
    err,                   \* the error returned to the caller
    calls,                 \* the collaborator calls issued so far, in order
    resp,                  \* the answer of the latest collaborator call
    k8sPc,                 \* where the Kubernetes gateway's OOM check stands
    k8sTarget,             \* its targetContainerName argument
    podList,               \* the pods its List call returned
    podIdx,                \* position of its loop over podList.Items
    k8sResult,             \* what it returned
    logged,                \* the entries the latest step wrote through the slog logger
    promPc,                \* where the metrics gateway's executeQuery stands
    queryName,             \* its queryName argument
    apiReply,              \* what the Prometheus API answered to its query
    promResult,            \* the (float64, error) executeQuery returned
    escPc,                 \* where the OOM escalation of one memory limit stands
    escLimit,              \* currentLimit.Value(), an int64
    escMemory,             \* newVal, then calculatedMemoryBytes
    mainPc,                \* where main() of the CLI stands
    fwdPc,                 \* where the port-forward goroutine stands
    readyCh,               \* the unbuffered channel readyCh: "open" or "closed"
    errCh,                 \* the buffer of the channel errCh
    fwdErr,                \* the error StartPortForward returned
    rendered,              \* whether the recommendations were rendered
    exitCode               \* the exit status of the process, -1 while it runs

engine == <<op, targetContainerName, deployment, pc, half, d, containersToAnalyze,
            idx, finalRecommendations, isOOM, currentLimit, memRecommendation,
            cpuP90, cpuP99, mainRecs, initRecs, allRecs, err, calls, resp>>
gateway == <<k8sPc, k8sTarget, podList, podIdx, k8sResult>>
prom == <<promPc, queryName, apiReply, promResult>>
escalation == <<escPc, escLimit, escMemory>>
cli == <<mainPc, fwdPc, readyCh, errCh, fwdErr, rendered, exitCode>>
vars == <<engine, gateway, logged, prom, escalation, cli>>

\* what the engine's own steps leave alone, and what the gateways' steps do
outsideEngine == <<gateway, prom, escalation, cli>>
outsideK8s == <<logged, prom, escalation, cli>>
outsideProm == <<engine, gateway, escalation, cli>>
outsideEscalation == <<engine, gateway, logged, prom, cli>>
outsideCli == <<engine, gateway, prom, escalation>>

params == <<op, targetContainerName, deployment>>
locals == <<isOOM, currentLimit, memRecommendation, cpuP90, cpuP99>>
returns == <<mainRecs, initRecs, allRecs, err>>

NilAll == [nil |-> TRUE, MainContainers |-> NilSlice, InitContainers |-> NilSlice]

Call(name, container) == [call |-> name, container |-> container]

\* the answer r of the call name
Answer(name, r) == [call |-> name, answer |-> r]

\* the loop body's variables, as they are when an iteration begins
FreshLocals ==
    /\ isOOM' = FALSE
    /\ currentLimit' = NilLimit
    /\ memRecommendation' = I64Zero
    /\ cpuP90' = Cores(0)
    /\ cpuP99' = Cores(0)

\* the Kubernetes gateway before its OOM check is called
GatewayIdle ==
    /\ k8sPc = "idle"
    /\ k8sTarget = ""
    /\ podList = <<>>
    /\ podIdx = 0
    /\ k8sResult = NoOOMResult

\* the engine when no operation of it is running
EngineIdle ==
    /\ op = "none"
    /\ targetContainerName = ""
    /\ deployment = NoDeployment
    /\ pc = "idle"
    /\ half = "main"
    /\ d = NoDeployment
    /\ containersToAnalyze = <<>>
    /\ idx = 0
    /\ finalRecommendations = <<>>
    /\ isOOM = FALSE
    /\ currentLimit = NilLimit
    /\ memRecommendation = I64Zero
    /\ cpuP90 = Cores(0)
    /\ cpuP99 = Cores(0)
    /\ mainRecs = NilSlice
    /\ initRecs = NilSlice
    /\ allRecs = NilAll
    /\ err = NoError
    /\ calls = <<>>
    /\ resp = Answer("none", [err |-> FALSE])

\* the metrics gateway before a query is executed
PromIdle ==
    /\ promPc = "idle"
    /\ queryName = ""
    /\ apiReply = NoReply
    /\ promResult = [value |-> Number(0), err |-> NoError]

\* no escalation of a limit is being computed
EscalationIdle ==
    /\ escPc = "idle"
    /\ escLimit = I64Zero
    /\ escMemory = I64Zero

\* the CLI is not running
CliIdle ==
    /\ mainPc = "idle"
    /\ fwdPc = "idle"
    /\ readyCh = "open"
    /\ errCh = <<>>
    /\ fwdErr = NoError
    /\ rendered = FALSE
    /\ exitCode = -1

Init ==
    /\ op \in Operations
    /\ targetContainerName \in Targets
    /\ deployment \in Deployments
    /\ pc = "GetDeployment"
    /\ half = IF op = "CalculateForInitContainers" THEN "init" ELSE "main"
    /\ d = NoDeployment
    /\ containersToAnalyze = <<>>
    /\ idx = 0
    /\ finalRecommendations = <<>>
    /\ isOOM = FALSE
    /\ currentLimit = NilLimit
    /\ memRecommendation = I64Zero
    /\ cpuP90 = Cores(0)
    /\ cpuP99 = Cores(0)
    /\ mainRecs = NilSlice
    /\ initRecs = NilSlice
    /\ allRecs = NilAll
    /\ err = NoError
    /\ calls = <<>>
    /\ resp = Answer("none", [err |-> FALSE])
    /\ logged = <<>>
    /\ GatewayIdle
    /\ PromIdle
    /\ EscalationIdle
    /\ CliIdle

----------------------------------------------------------------------------
(* The decision procedure of one container *)

\* the declared containers, last one first
DeclaredContainers_Reversed(dep, h) ==
    LET declared == IF h = "main" THEN dep.Containers ELSE dep.InitContainers
    IN  [i \in 1..Len(declared) |-> declared[Len(declared) + 1 - i]]

\* the list a sub-calculation examines: Containers or InitContainers of d
DeclaredContainers(dep, h) ==
    IF h = "main" THEN dep.Containers ELSE dep.InitContainers

\* the selection without the lookup: a target is analyzed whether or not the
\* list declares it
SelectContainers_Unchecked(declared, target) ==
    IF target # ""
      THEN [found |-> TRUE, names |-> <<target>>]
      ELSE [found |-> TRUE, names |-> declared]

\* lines 323-341 and 445-463: the names to analyze for a target; found is
\* FALSE when a non-empty target is not in the list
SelectContainers(declared, target) ==
    IF target # ""
      THEN IF \E i \in 1..Len(declared) : declared[i] = target
             THEN [found |-> TRUE, names |-> <<target>>]
             ELSE [found |-> FALSE, names |-> <<>>]
      ELSE [found |-> TRUE, names |-> declared]

\* line 355: int64(float64(v) * oomMemoryMultiplier) for an int64 v that
\* float64 holds exactly (as does the product): the product truncated toward
\* zero.  When the product is outside the int64 range, Go leaves the result
\* of the conversion to the implementation: amd64 gives the smallest int64,
\* arm64 saturates.  The outcomes are returned as a set.
OOMEscalation(v) ==
    LET q == I64DivSmall(v, oomMemoryMultiplierDen)
        r == I64ToSmallInt(I64Add(v, I64Neg(I64MulSmall(q, oomMemoryMultiplierDen))))
        product == I64Add(I64MulSmall(q, oomMemoryMultiplierNum),
                          I64(TruncDiv(r * oomMemoryMultiplierNum, oomMemoryMultiplierDen)))
    IN  IF v # I64Zero /\ I64IsNeg(product) # I64IsNeg(v)
          THEN {MinInt64, MaxInt64}
          ELSE {product}

\* the escalation rounded to the nearest byte instead of truncated
OOMMemory_Rounded(limit) ==
    IF ~limit.nil
      THEN {I64(TruncDiv(limit.value * oomMemoryMultiplierNum + 1, oomMemoryMultiplierDen))}
      ELSE {oomFallbackBytes}

\* lines 353-360: the values newVal can take for the limit the OOM check
\* returned, or the 512 MiB literal without a limit
OOMMemory(limit) ==
    IF ~limit.nil
      THEN OOMEscalation(I64(limit.value))
      ELSE {oomFallbackBytes}

\* the main path with the buffer of the init path
MetricMemory_InitBuffer(memP99) ==
    I64DivSmall(I64MulSmall(Int64OfFloat(memP99), initContainerMemoryBufferPercent), 100)

\* line 363: (int64(memP99) * mainContainerMemoryBufferPercent) / 100
MetricMemory(memP99) ==
    I64DivSmall(I64MulSmall(Int64OfFloat(memP99), mainContainerMemoryBufferPercent), 100)

\* the spikiness test with >= for >
IsSpiky_Inclusive(p99, p50) ==
    /\ p50.num > 0
    /\ p99.num * p50.den >= spikinessThreshold * p50.num * p99.den

\* line 373: cpuP50 > 0 && cpuP99/cpuP50 > spikinessThreshold
IsSpiky(p99, p50) ==
    /\ p50.num > 0
    /\ p99.num * p50.den > spikinessThreshold * p50.num * p99.den

\* lines 371-376: cpuLimitValue, multiplied by spikinessCPUBuffer when spiky
CPULimitValue(p99, p50) ==
    IF IsSpiky(p99, p50)
      THEN [num |-> p99.num * spikinessCPUBufferNum, den |-> p99.den * spikinessCPUBufferDen]
      ELSE p99

\* int64(v * 1000) of lines 378 and 389
Milli(v) == TruncDiv(v.num * 1000, v.den)

\* the request without its floor
CPURequestMilli_NoFloor(p90) == Milli(p90)

\* lines 378-387: the request with its floor
CPURequestMilli(p90) ==
    IF Milli(p90) < minCPURequestMilli THEN minCPURequestMilli ELSE Milli(p90)

\* lines 389-398: the limit with its floor
FlooredCPULimitMilli(v) ==
    IF Milli(v) < minCPULimitMilli THEN minCPULimitMilli ELSE Milli(v)

\* a limit below the request raised past the request
ConsistentCPULimitMilli_PastRequest(limitMilli, requestMilli) ==
    IF limitMilli < requestMilli THEN requestMilli + minCPURequestMilli ELSE limitMilli

\* the limit left below the request
ConsistentCPULimitMilli_NoRaise(limitMilli, requestMilli) == limitMilli

\* lines 400-408: a limit below the request is raised to the request
ConsistentCPULimitMilli(limitMilli, requestMilli) ==
    IF limitMilli < requestMilli THEN requestMilli ELSE limitMilli

\* the memory without its floor
FlooredMemory_NoFloor(bytes) == bytes

\* lines 410-419: the memory floor
FlooredMemory(bytes) ==
    IF I64Less(bytes, minMemoryBytes) THEN minMemoryBytes ELSE bytes

\* the recommendation whose request takes the spikiness buffer as well
MainRecommendation_BufferedRequest(containerName, oom, mem, p90, p99, p50) ==
    [ContainerName |-> containerName,
     Recommendation |->
        [Memory |-> FlooredMemory(mem),
         IsOOMKilled |-> oom,
         CPU |-> [Request |-> CPURequestMilli(CPULimitValue(p90, p50)),
                  Limit |-> ConsistentCPULimitMilli(
                               FlooredCPULimitMilli(CPULimitValue(p99, p50)),
                               CPURequestMilli(CPULimitValue(p90, p50))),
                  SpikinessWarning |-> IsSpiky(p99, p50)]]]

\* lines 371-434: the NamedRecommendation of a main container
MainRecommendation(containerName, oom, mem, p90, p99, p50) ==
    [ContainerName |-> containerName,
     Recommendation |->
        [Memory |-> FlooredMemory(mem),
         IsOOMKilled |-> oom,
         CPU |-> [Request |-> CPURequestMilli(p90),
                  Limit |-> ConsistentCPULimitMilli(
                               FlooredCPULimitMilli(CPULimitValue(p99, p50)),
                               CPURequestMilli(p90)),
                  SpikinessWarning |-> IsSpiky(p99, p50)]]]

\* an entry of the structured log: level, message, and the container attribute
LogEntry(level, msg, container) == [level |-> level, msg |-> msg, container |-> container]

\* lines 379-416: the Info entries of the floors that were applied, in the
\* order the loop body writes them
FloorLog(containerName, mem, p90, p99, p50) ==
    LET request == CPURequestMilli(p90)
        limit == FlooredCPULimitMilli(CPULimitValue(p99, p50))
    IN  (IF Milli(p90) < minCPURequestMilli
           THEN <<LogEntry("INFO", "Calculated CPU request is below the minimum floor, applying minimum.",
                           containerName)>>
           ELSE <<>>)
        \o (IF Milli(CPULimitValue(p99, p50)) < minCPULimitMilli
              THEN <<LogEntry("INFO", "Calculated CPU limit is below the minimum floor, applying minimum.",
                              containerName)>>
              ELSE <<>>)
        \o (IF limit < request
              THEN <<LogEntry("INFO", "Calculated CPU limit is below the CPU request, applying CPU request as limit.",
                              containerName)>>
              ELSE <<>>)
        \o (IF I64Less(mem, minMemoryBytes)
              THEN <<LogEntry("INFO", "Calculated memory is below the minimum floor, applying minimum.",
                              containerName)>>
              ELSE <<>>)

\* the append that skips a container without usage data
AppendMain_SkipIdle(recs, containerName, oom, mem, p90, p99, p50) ==
    IF p90.num = 0 /\ p99.num = 0 /\ mem = I64Zero
      THEN recs
      ELSE Append(recs, MainRecommendation(containerName, oom, mem, p90, p99, p50))

\* lines 425-434: the append of the main container's recommendation
AppendMain(recs, containerName, oom, mem, p90, p99, p50) ==
    Append(recs, MainRecommendation(containerName, oom, mem, p90, p99, p50))

\* the init memory with the buffer of the main containers
InitMemory_MainBuffer(memMax) ==
    IF FloatPositive(memMax)
      THEN I64DivSmall(I64MulSmall(Int64OfFloat(memMax), mainContainerMemoryBufferPercent), 100)
      ELSE MustParse(initMemoryDefault).bytes

\* lines 474-481: the memory of an init container
InitMemory(memMax) ==
    IF FloatPositive(memMax)
      THEN I64DivSmall(I64MulSmall(Int64OfFloat(memMax), initContainerMemoryBufferPercent), 100)
      ELSE MustParse(initMemoryDefault).bytes

\* the init recommendation with the CPU floors of the main containers
InitRecommendation_MainFloors(containerName, memMax) ==
    [ContainerName |-> containerName,
     Recommendation |->
        [Memory |-> InitMemory(memMax),
         IsOOMKilled |-> FALSE,
         CPU |-> [Request |-> minCPURequestMilli,
                  Limit |-> minCPULimitMilli,
                  SpikinessWarning |-> FALSE]]]

\* lines 471-493: the NamedRecommendation of an init container
InitRecommendation(containerName, memMax) ==
    [ContainerName |-> containerName,
     Recommendation |->
        [Memory |-> InitMemory(memMax),
         IsOOMKilled |-> FALSE,
         CPU |-> [Request |-> MustParse(initCPURequestDefault).milli,
                  Limit |-> MustParse(initCPULimitDefault).milli,
                  SpikinessWarning |-> FALSE]]]

----------------------------------------------------------------------------
(* Returning from a sub-calculation *)

\* the frame of a sub-calculation ends with it
ClearFrame ==
    /\ d' = NoDeployment
    /\ containersToAnalyze' = <<>>
    /\ idx' = 0
    /\ finalRecommendations' = <<>>

\* CalculateForDeployment or CalculateForInitContainers, called directly,
\* returns (recs, e) to the caller
ReturnToCaller(recs, e) ==
    /\ pc' = "done"
    /\ err' = e
    /\ IF half = "main"
         THEN mainRecs' = recs /\ UNCHANGED initRecs
         ELSE initRecs' = recs /\ UNCHANGED mainRecs
    /\ UNCHANGED <<half, allRecs>>

\* CalculateForAll handing out the main recommendations together with the
\* error of the init half
ReturnToAll_Partial(recs, e) ==
    IF half = "main"
      THEN /\ mainRecs' = recs
           /\ UNCHANGED initRecs
           /\ IF e # NoError
                THEN /\ err' = Wrap("error calculating main container recommendations", e)
                     /\ pc' = "done"
                     /\ UNCHANGED <<half, allRecs>>
                ELSE /\ pc' = "GetDeployment"
                     /\ half' = "init"
                     /\ UNCHANGED <<err, allRecs>>
      ELSE /\ initRecs' = recs
           /\ UNCHANGED <<mainRecs, half>>
           /\ pc' = "done"
           /\ allRecs' = [nil |-> FALSE, MainContainers |-> mainRecs,
                          InitContainers |-> recs]
           /\ err' = IF e # NoError
                       THEN Wrap("error calculating init container recommendations", e)
                       ELSE NoError

\* lines 498-511: CalculateForAll receives (recs, e) from the running half
ReturnToAll(recs, e) ==
    IF half = "main"
      THEN /\ mainRecs' = recs
           /\ UNCHANGED initRecs
           /\ IF e # NoError
                THEN /\ err' = Wrap("error calculating main container recommendations", e)
                     /\ pc' = "done"
                     /\ UNCHANGED <<half, allRecs>>
                ELSE /\ pc' = "GetDeployment"
                     /\ half' = "init"
                     /\ UNCHANGED <<err, allRecs>>
      ELSE /\ initRecs' = recs
           /\ UNCHANGED <<mainRecs, half>>
           /\ pc' = "done"
           /\ IF e # NoError
                THEN /\ err' = Wrap("error calculating init container recommendations", e)
                     /\ UNCHANGED allRecs
                ELSE /\ allRecs' = [nil |-> FALSE, MainContainers |-> mainRecs,
                                    InitContainers |-> recs]
                     /\ UNCHANGED err

Return(recs, e) ==
    /\ ClearFrame
    /\ IF op = "CalculateForAll" THEN ReturnToAll(recs, e) ELSE ReturnToCaller(recs, e)

----------------------------------------------------------------------------
(* The actions: one per collaborator call *)

\* the deployment error swallowed
DeploymentErrorResult_Swallowed ==
    [recs |-> Slice(<<>>), err |-> NoError]

\* lines 320, 442: what a sub-calculation returns when GetDeployment fails
DeploymentErrorResult ==
    [recs |-> NilSlice, err |-> Wrap("could not get deployment", <<"gateway error">>)]

\* an empty selection reported as an error
EmptySelectionResult_Error ==
    [recs |-> NilSlice, err |-> <<"no containers found to analyze in deployment spec">>]

\* lines 335, 344, 457, 466: what a sub-calculation returns when it has no
\* container to analyze
EmptySelectionResult ==
    [recs |-> Slice(<<>>), err |-> NoError]

\* lines 318-321, 440-443: GetDeployment returns an error
GetDeploymentFails ==
    /\ pc = "GetDeployment"
    /\ calls' = Append(calls, Call("GetDeployment", ""))
    /\ resp' = Answer("GetDeployment", [err |-> TRUE])
    /\ Return(DeploymentErrorResult.recs, DeploymentErrorResult.err)
    /\ logged' = <<>>
    /\ UNCHANGED <<params, locals, outsideEngine>>

\* lines 318-345, 440-467: GetDeployment returns the deployment, and the
\* containers to analyze are selected
GetDeploymentReturns ==
    /\ pc = "GetDeployment"
    /\ calls' = Append(calls, Call("GetDeployment", ""))
    /\ resp' = Answer("GetDeployment", [err |-> FALSE])
    /\ LET sel == SelectContainers(DeclaredContainers(deployment, half), targetContainerName)
       IN  IF ~sel.found \/ Len(sel.names) = 0
             THEN Return(EmptySelectionResult.recs, EmptySelectionResult.err)
             ELSE /\ d' = deployment
                  /\ containersToAnalyze' = sel.names
                  /\ idx' = 1
                  /\ finalRecommendations' = <<>>
                  /\ pc' = IF half = "main" THEN "CheckForOOMKilledEvents"
                                            ELSE "GetInitContainerMemoryMetrics"
                  /\ UNCHANGED <<half, returns>>
    /\ logged' = <<>>
    /\ UNCHANGED <<params, locals, outsideEngine>>

\* the error of a metric query returned from the loop, ending the batch
MetricError_Returned(r) ==
    IF r.err THEN <<"metric query failed">> ELSE NoError

\* lines 362, 367-369, 472: the error of a metric query is assigned to the
\* blank identifier, so the loop body never returns it
MetricError(r) == NoError

\* a return of (nil, e) from inside the loop body
Abort(e) ==
    /\ FreshLocals
    /\ Return(NilSlice, e)

\* lines 349-360: the OOM check of the container, and the memory of the OOM branch
OOMCheckAnswers(r) ==
    /\ pc = "CheckForOOMKilledEvents"
    /\ calls' = Append(calls, Call("CheckForOOMKilledEvents", containersToAnalyze[idx]))
    /\ resp' = Answer("CheckForOOMKilledEvents", r)
    /\ isOOM' = r.isOOM
    /\ currentLimit' = r.limit
    /\ IF r.isOOM
         THEN /\ memRecommendation' \in OOMMemory(r.limit)
              /\ pc' = "GetCPURequestMetrics"
         ELSE /\ UNCHANGED memRecommendation
              /\ pc' = "GetMemoryMetrics"
    /\ UNCHANGED <<params, half, d, containersToAnalyze, idx, finalRecommendations,
                   cpuP90, cpuP99, returns>>
    /\ logged' = <<>>

\* line 349, against any implementation of DeploymentGateway
CheckForOOMKilledEvents ==
    \E r \in OOMResponses :
        /\ OOMCheckAnswers(r)
        /\ UNCHANGED outsideEngine

\* lines 362-364: the p99 memory query of the metrics branch
GetMemoryMetrics ==
    \E r \in MemoryResponses :
        /\ pc = "GetMemoryMetrics"
        /\ calls' = Append(calls, Call("GetMemoryMetrics", containersToAnalyze[idx]))
        /\ resp' = Answer("GetMemoryMetrics", r)
        /\ IF MetricError(r) # NoError
             THEN Abort(MetricError(r))
             ELSE /\ memRecommendation' = MetricMemory(r.value)
                  /\ pc' = "GetCPURequestMetrics"
                  /\ UNCHANGED <<half, d, containersToAnalyze, idx, finalRecommendations,
                                 isOOM, currentLimit, cpuP90, cpuP99, returns>>
        /\ logged' = <<>>
        /\ UNCHANGED <<params, outsideEngine>>

\* line 367
GetCPURequestMetrics ==
    \E r \in CPUResponses :
        /\ pc = "GetCPURequestMetrics"
        /\ calls' = Append(calls, Call("GetCPURequestMetrics", containersToAnalyze[idx]))
        /\ resp' = Answer("GetCPURequestMetrics", r)
        /\ IF MetricError(r) # NoError
             THEN Abort(MetricError(r))
             ELSE /\ cpuP90' = r.value
                  /\ pc' = "GetCPULimitMetrics"
                  /\ UNCHANGED <<half, d, containersToAnalyze, idx, finalRecommendations,
                                 isOOM, currentLimit, memRecommendation, cpuP99, returns>>
        /\ logged' = <<>>
        /\ UNCHANGED <<params, outsideEngine>>

\* line 368
GetCPULimitMetrics ==
    \E r \in CPUResponses :
        /\ pc = "GetCPULimitMetrics"
        /\ calls' = Append(calls, Call("GetCPULimitMetrics", containersToAnalyze[idx]))
        /\ resp' = Answer("GetCPULimitMetrics", r)
        /\ IF MetricError(r) # NoError
             THEN Abort(MetricError(r))
             ELSE /\ cpuP99' = r.value
                  /\ pc' = "GetCPUMedianMetrics"
                  /\ UNCHANGED <<half, d, containersToAnalyze, idx, finalRecommendations,
                                 isOOM, currentLimit, memRecommendation, cpuP90, returns>>
        /\ logged' = <<>>
        /\ UNCHANGED <<params, outsideEngine>>

\* the end of a loop iteration: the next container, or the return at line
\* 436 / 495
NextContainer(recs) ==
    /\ FreshLocals
    /\ IF idx < Len(containersToAnalyze)
         THEN /\ finalRecommendations' = recs
              /\ idx' = idx + 1
              /\ pc' = IF half = "main" THEN "CheckForOOMKilledEvents"
                                        ELSE "GetInitContainerMemoryMetrics"
              /\ UNCHANGED <<half, d, containersToAnalyze, returns>>
         ELSE Return(Slice(recs), NoError)

\* lines 369-435: the median query, the CPU decision, the floors and the append
GetCPUMedianMetrics ==
    \E r \in CPUMedianResponses :
        /\ pc = "GetCPUMedianMetrics"
        /\ calls' = Append(calls, Call("GetCPUMedianMetrics", containersToAnalyze[idx]))
        /\ resp' = Answer("GetCPUMedianMetrics", r)
        /\ IF MetricError(r) # NoError
             THEN Abort(MetricError(r))
             ELSE NextContainer(AppendMain(finalRecommendations, containersToAnalyze[idx],
                                           isOOM, memRecommendation, cpuP90, cpuP99, r.value))
        /\ logged' = IF MetricError(r) # NoError
                       THEN <<>>
                       ELSE FloorLog(containersToAnalyze[idx], memRecommendation,
                                     cpuP90, cpuP99, r.value)
        /\ UNCHANGED <<params, outsideEngine>>

\* lines 470-494: the maximum-memory query of an init container and the append
GetInitContainerMemoryMetrics ==
    \E r \in InitMemoryResponses :
        /\ pc = "GetInitContainerMemoryMetrics"
        /\ calls' = Append(calls, Call("GetInitContainerMemoryMetrics", containersToAnalyze[idx]))
        /\ resp' = Answer("GetInitContainerMemoryMetrics", r)
        /\ IF MetricError(r) # NoError
             THEN Abort(MetricError(r))
             ELSE NextContainer(Append(finalRecommendations,
                      InitRecommendation(containersToAnalyze[idx], r.value)))
        /\ logged' = <<>>
        /\ UNCHANGED <<params, outsideEngine>>

Next ==
    \/ GetDeploymentFails
    \/ GetDeploymentReturns
    \/ CheckForOOMKilledEvents
    \/ GetMemoryMetrics
    \/ GetCPURequestMetrics
    \/ GetCPULimitMetrics
    \/ GetCPUMedianMetrics
    \/ GetInitContainerMemoryMetrics

Spec == Init /\ [][Next]_vars

----------------------------------------------------------------------------
(* The Kubernetes gateway's CheckForOOMKilledEvents (k8s.go), called by the
   engine at line 349 *)

\* the containers a pod of the deployment declares
PodContainerNames == <<"sidecar", "app">>

\* the memory limit a pod declares for the container name, when it has one
DeclaredLimit(name) == IF name = "sidecar" THEN 33554432 ELSE 268435457

\* pod.Spec.Containers: the first n containers, with or without memory limits
PodSpecs ==
    {[i \in 1..n |-> [Name |-> PodContainerNames[i],
                      Limit |-> IF limited THEN Limit(DeclaredLimit(PodContainerNames[i]))
                                           ELSE NilLimit]]
        : n \in 0..Len(PodContainerNames), limited \in BOOLEAN}

\* a pod as the cluster holds it: its containers, the container of it that
\* was OOM-killed ("" when none was; the pod has OOMKilled events exactly
\* then), and whether listing its events fails
Pods ==
    UNION {{[Containers |-> cs, oomKilled |-> k, eventsErr |-> e]
              : k \in {""} \cup {cs[i].Name : i \in 1..Len(cs)}, e \in BOOLEAN}
           : cs \in PodSpecs}

PodLists == UNION {[1..n -> Pods] : n \in 0..MaxPods}

\* lines 82-98: the memory limit of the container named target in the pod;
\* an empty target stands for the pod's first container
PodMemoryLimit(pod, target) ==
    IF Len(pod.Containers) = 0
      THEN NilLimit
      ELSE LET name == IF target = "" THEN pod.Containers[1].Name ELSE target
               hits == {i \in 1..Len(pod.Containers) : pod.Containers[i].Name = name}
           IN  IF hits = {}
                 THEN NilLimit
                 ELSE pod.Containers[CHOOSE i \in hits : \A j \in hits : i <= j].Limit

\* lines 74-81: the events of the pod with reason OOMKilled are listed by pod
\* name only; any such event counts, whatever container it is about
OOMEventCounts(pod, target) == pod.oomKilled # ""

K8sReturn(result) ==
    /\ k8sResult' = result
    /\ k8sPc' = "returned"

\* lines 62-65: the selector of the deployment cannot be built
K8sSelectorFails ==
    /\ k8sPc = "Pods.List"
    /\ K8sReturn(OOMResult(FALSE, "", NilLimit,
                           <<"failed to build selector from deployment spec">>))
    /\ UNCHANGED <<engine, k8sTarget, podList, podIdx, outsideK8s>>

\* lines 67-70: listing the pods fails
K8sListPodsFails ==
    /\ k8sPc = "Pods.List"
    /\ K8sReturn(OOMResult(FALSE, "", NilLimit, <<"failed to list pods for deployment">>))
    /\ UNCHANGED <<engine, k8sTarget, podList, podIdx, outsideK8s>>

\* lines 67-72, 101: the pods are listed
K8sListPodsReturns ==
    \E pods \in PodLists :
        /\ k8sPc = "Pods.List"
        /\ podList' = pods
        /\ IF Len(pods) = 0
             THEN /\ K8sReturn(NoOOMResult)
                  /\ UNCHANGED podIdx
             ELSE /\ podIdx' = 1
                  /\ k8sPc' = "Events.List"
                  /\ UNCHANGED k8sResult
        /\ UNCHANGED <<engine, k8sTarget, outsideK8s>>

\* lines 72-101: the OOMKilled events of the next pod are listed
K8sListEvents ==
    /\ k8sPc = "Events.List"
    /\ LET pod == podList[podIdx]
       IN  IF ~pod.eventsErr /\ OOMEventCounts(pod, k8sTarget)
             THEN /\ K8sReturn(OOMResult(TRUE, podIdx, PodMemoryLimit(pod, k8sTarget), NoError))
                  /\ UNCHANGED podIdx
             ELSE IF podIdx < Len(podList)
                    THEN /\ podIdx' = podIdx + 1
                         /\ UNCHANGED <<k8sPc, k8sResult>>
                    ELSE /\ K8sReturn(NoOOMResult)
                         /\ UNCHANGED podIdx
    /\ UNCHANGED <<engine, k8sTarget, podList, outsideK8s>>

\* recommender.go line 349: the engine receives what the gateway returned
K8sAnswersEngine ==
    /\ k8sPc = "returned"
    /\ OOMCheckAnswers([isOOM |-> k8sResult.isOOM, limit |-> k8sResult.limit,
                        err |-> k8sResult.err # NoError])
    /\ k8sPc' = "idle"
    /\ UNCHANGED <<k8sTarget, podList, podIdx, k8sResult, prom, escalation, cli>>

\* the engine has resolved a deployment with two containers and asks the
\* gateway about the container it analyzes
GatewayInit ==
    /\ op = "CalculateForDeployment"
    /\ targetContainerName \in {"sidecar", "app"}
    /\ deployment = [Containers |-> <<"sidecar", "app">>, InitContainers |-> <<>>,
                     resolved |-> TRUE]
    /\ pc = "CheckForOOMKilledEvents"
    /\ half = "main"
    /\ d = deployment
    /\ containersToAnalyze = <<targetContainerName>>
    /\ idx = 1
    /\ finalRecommendations = <<>>
    /\ isOOM = FALSE
    /\ currentLimit = NilLimit
    /\ memRecommendation = I64Zero
    /\ cpuP90 = Cores(0)
    /\ cpuP99 = Cores(0)
    /\ mainRecs = NilSlice
    /\ initRecs = NilSlice
    /\ allRecs = NilAll
    /\ err = NoError
    /\ calls = <<Call("GetDeployment", "")>>
    /\ resp = Answer("GetDeployment", [err |-> FALSE])
    /\ k8sPc = "Pods.List"
    /\ k8sTarget = containersToAnalyze[idx]
    /\ podList = <<>>
    /\ podIdx = 0
    /\ k8sResult = NoOOMResult
    /\ logged = <<>>
    /\ PromIdle
    /\ EscalationIdle
    /\ CliIdle

GatewayNext ==
    \/ K8sSelectorFails
    \/ K8sListPodsFails
    \/ K8sListPodsReturns
    \/ K8sListEvents
    \/ K8sAnswersEngine

GatewaySpec == GatewayInit /\ [][GatewayNext]_vars

----------------------------------------------------------------------------
(* The metrics gateway's executeQuery (prometheus.go), which each of its Get
   methods ends with *)

\* the error of api.Query, as the client library reports it
ApiError == <<"client error">>

\* the result that passes a NaN or infinite sample through
NonNumericResult_Passed(value) == [value |-> value, err |-> NoError]

\* lines 82-86: a NaN or infinite sample is treated as 0
NonNumericResult(value) == [value |-> Number(0), err |-> NoError]

\* lines 64-66: the query failed
QueryFailedResult(name) ==
    [value |-> Number(0), err |-> Wrap(<<"failed to query Prometheus for", name>>, ApiError)]

\* lines 72-75: the result is not an instant vector
UnexpectedTypeResult(name, type) ==
    [value |-> Number(0), err |-> <<<<"unexpected result type for", name, type>>>>]

\* lines 67-69: the warnings of the reply are logged
WarningsLog(reply) ==
    IF reply.warnings
      THEN <<LogEntry("WARN", "Prometheus query returned warnings", queryName)>>
      ELSE <<>>

PromReturn(result) ==
    /\ promResult' = result
    /\ promPc' = "returned"
    /\ UNCHANGED <<queryName, apiReply, outsideProm>>

\* lines 62-63: the query is logged and sent, and the API answers
ApiQuery ==
    \E reply \in ApiReplies :
        /\ promPc = "api.Query"
        /\ logged' = <<LogEntry("DEBUG", "Fetching metrics from Prometheus", queryName)>>
        /\ apiReply' = reply
        /\ promPc' = "answered"
        /\ UNCHANGED <<queryName, promResult, outsideProm>>

\* lines 64-66
QueryFailed ==
    /\ promPc = "answered"
    /\ apiReply.err
    /\ logged' = <<>>
    /\ PromReturn(QueryFailedResult(queryName))

\* lines 67-75
UnexpectedType ==
    /\ promPc = "answered"
    /\ ~apiReply.err
    /\ apiReply.type # "vector"
    /\ logged' = WarningsLog(apiReply)
    /\ PromReturn(UnexpectedTypeResult(queryName, apiReply.type))

\* lines 67-80
NoData ==
    /\ promPc = "answered"
    /\ ~apiReply.err
    /\ apiReply.type = "vector"
    /\ Len(apiReply.vector) = 0
    /\ logged' = WarningsLog(apiReply)
                    \o <<LogEntry("INFO", "Query returned no data", queryName)>>
    /\ PromReturn([value |-> Number(0), err |-> NoError])

\* lines 67-86
NonNumeric ==
    /\ promPc = "answered"
    /\ ~apiReply.err
    /\ apiReply.type = "vector"
    /\ Len(apiReply.vector) > 0
    /\ IsNaN(apiReply.vector[1]) \/ IsInf(apiReply.vector[1])
    /\ logged' = WarningsLog(apiReply)
                    \o <<LogEntry("WARN", "Query returned non-numeric value (NaN or Inf), treating as 0",
                                queryName)>>
    /\ PromReturn(NonNumericResult(apiReply.vector[1]))

\* lines 67-88
FirstSample ==
    /\ promPc = "answered"
    /\ ~apiReply.err
    /\ apiReply.type = "vector"
    /\ Len(apiReply.vector) > 0
    /\ ~(IsNaN(apiReply.vector[1]) \/ IsInf(apiReply.vector[1]))
    /\ logged' = WarningsLog(apiReply)
    /\ PromReturn([value |-> apiReply.vector[1], err |-> NoError])

\* one of the Get methods of lines 30-59 calls executeQuery
PromInit ==
    /\ EngineIdle
    /\ GatewayIdle
    /\ logged = <<>>
    /\ promPc = "api.Query"
    /\ queryName \in QueryNames
    /\ apiReply = NoReply
    /\ promResult = [value |-> Number(0), err |-> NoError]
    /\ EscalationIdle
    /\ CliIdle

PromNext ==
    \/ ApiQuery
    \/ QueryFailed
    \/ UnexpectedType
    \/ NoData
    \/ NonNumeric
    \/ FirstSample

PromSpec == PromInit /\ [][PromNext]_vars

----------------------------------------------------------------------------
(* The memory of an OOM-killed container with a recorded limit, as a function
   of the limit alone (recommender.go lines 353-356 and 410-419) *)

\* the exponents e with 3 * 2^e inside int64
LimitExponents == 0..61

\* memory limits a container can have been given: 2^e, 3 * 2^e and 2^e + 1
\* bytes, each exact as a float64 together with its escalation
EscalationLimits ==
    {I64Pow2(e) : e \in LimitExponents \cup {62}}
    \cup {I64MulSmall(I64Pow2(e), 3) : e \in LimitExponents}
    \cup {I64Add(I64Pow2(e), I64(1)) : e \in 1..50}

\* line 355: newVal
Escalate ==
    /\ escPc = "escalate"
    /\ escMemory' \in OOMEscalation(escLimit)
    /\ escPc' = "floor"
    /\ UNCHANGED <<escLimit, outsideEscalation>>

\* lines 410-419: calculatedMemoryBytes
FloorEscalated ==
    /\ escPc = "floor"
    /\ escMemory' = FlooredMemory(escMemory)
    /\ escPc' = "done"
    /\ UNCHANGED <<escLimit, outsideEscalation>>

\* the OOM check reported a kill and the limit escLimit
EscalationInit ==
    /\ EngineIdle
    /\ GatewayIdle
    /\ logged = <<>>
    /\ PromIdle
    /\ CliIdle
    /\ escPc = "escalate"
    /\ escLimit \in EscalationLimits
    /\ escMemory = I64Zero

EscalationNext ==
    \/ Escalate
    \/ FloorEscalated

EscalationSpec == EscalationInit /\ [][EscalationNext]_vars

----------------------------------------------------------------------------
(* The CLI (main.go lines 165-217) and the port-forward goroutine it starts
   (k8s.go lines 104-152) *)

\* a channel made without a capacity
ErrChCapacity_Unbuffered == Len(<<>>)

\* main.go line 167: make(chan error, 1)
ErrChCapacity == 1

\* the process is running
Running == exitCode = -1

\* os.Exit(code), or the return of main: the process and its goroutines end
Exit(code) ==
    /\ mainPc' = "exited"
    /\ exitCode' = code

\* StartPortForward returns the error e to the goroutine
ForwardReturns(msg) ==
    /\ fwdErr' = <<msg>>
    /\ fwdPc' = "returned"

\* main.go line 170: the goroutine is started; main goes on to its select
GoPortForward ==
    /\ Running
    /\ mainPc = "go"
    /\ mainPc' = "select"
    /\ fwdPc' = "Services.Get"
    /\ logged' = <<>>
    /\ UNCHANGED <<readyCh, errCh, fwdErr, rendered, exitCode, outsideCli>>

\* k8s.go lines 105-108
ServicesGet ==
    \E ok \in BOOLEAN :
        /\ Running
        /\ fwdPc = "Services.Get"
        /\ IF ok THEN fwdPc' = "Pods.List" /\ UNCHANGED fwdErr
                 ELSE ForwardReturns("could not find service")
        /\ logged' = <<>>
        /\ UNCHANGED <<mainPc, readyCh, errCh, rendered, exitCode, outsideCli>>

\* k8s.go lines 110-130
PodsList ==
    \E outcome \in {"running pod", "could not list pods for service",
                     "no pods found for service", "no running pods found for service"} :
        /\ Running
        /\ fwdPc = "Pods.List"
        /\ IF outcome = "running pod" THEN fwdPc' = "RoundTripperFor" /\ UNCHANGED fwdErr
                                      ELSE ForwardReturns(outcome)
        /\ logged' = <<>>
        /\ UNCHANGED <<mainPc, readyCh, errCh, rendered, exitCode, outsideCli>>

\* k8s.go lines 137-140
RoundTripperFor ==
    \E ok \in BOOLEAN :
        /\ Running
        /\ fwdPc = "RoundTripperFor"
        /\ IF ok THEN fwdPc' = "portforward.New" /\ UNCHANGED fwdErr
                 ELSE ForwardReturns("failed to create round tripper")
        /\ logged' = <<>>
        /\ UNCHANGED <<mainPc, readyCh, errCh, rendered, exitCode, outsideCli>>

\* k8s.go lines 146-149
PortForwardNew ==
    \E ok \in BOOLEAN :
        /\ Running
        /\ fwdPc = "portforward.New"
        /\ IF ok THEN fwdPc' = "ForwardPorts" /\ UNCHANGED fwdErr
                 ELSE ForwardReturns("failed to create port forwarder")
        /\ logged' = <<>>
        /\ UNCHANGED <<mainPc, readyCh, errCh, rendered, exitCode, outsideCli>>

\* k8s.go line 151: the forwarder listens and closes readyCh; a main that is
\* blocked in its select is woken with the case of line 178
ForwardPortsReady ==
    /\ Running
    /\ fwdPc = "ForwardPorts"
    /\ readyCh' = "closed"
    /\ fwdPc' = "forwarding"
    /\ mainPc' = IF mainPc = "parked" THEN "case readyCh" ELSE mainPc
    /\ logged' = <<>>
    /\ UNCHANGED <<errCh, fwdErr, rendered, exitCode, outsideCli>>

\* k8s.go line 151: ForwardPorts returns an error, before it is ready (it
\* cannot listen) or after (the connection to the pod is lost)
ForwardPortsFails ==
    /\ Running
    /\ fwdPc \in {"ForwardPorts", "forwarding"}
    /\ ForwardReturns(IF fwdPc = "ForwardPorts" THEN "unable to listen on any of the requested ports"
                                               ELSE "lost connection to pod")
    /\ logged' = <<>>
    /\ UNCHANGED <<mainPc, readyCh, errCh, rendered, exitCode, outsideCli>>

\* main.go lines 172-174: the error is sent on errCh; a main that is blocked
\* in its select receives it with the case of line 183, otherwise the send
\* needs room in the buffer
SendError ==
    /\ Running
    /\ fwdPc = "returned"
    /\ mainPc = "parked" \/ Len(errCh) < ErrChCapacity
    /\ errCh' = Append(errCh, Wrap("port-forwarding failed", fwdErr))
    /\ fwdPc' = "done"
    /\ mainPc' = IF mainPc = "parked" THEN "case errCh" ELSE mainPc
    /\ logged' = <<>>
    /\ UNCHANGED <<readyCh, fwdErr, rendered, exitCode, outsideCli>>

\* main.go lines 177-186: main reaches the select when a channel can already
\* be received from, and takes one of the cases that can proceed
SelectPolls ==
    /\ Running
    /\ mainPc = "select"
    /\ \/ readyCh = "closed" /\ mainPc' = "case readyCh"
       \/ errCh # <<>> /\ mainPc' = "case errCh"
    /\ logged' = <<>>
    /\ UNCHANGED <<fwdPc, readyCh, errCh, fwdErr, rendered, exitCode, outsideCli>>

\* main.go lines 177-186: no case can proceed; the timer of line 180 is
\* started and main blocks
SelectParks ==
    /\ Running
    /\ mainPc = "select"
    /\ readyCh = "open"
    /\ errCh = <<>>
    /\ mainPc' = "parked"
    /\ logged' = <<>>
    /\ UNCHANGED <<fwdPc, readyCh, errCh, fwdErr, rendered, exitCode, outsideCli>>

\* main.go line 180: the 30 seconds elapse while main is blocked
TimerFires ==
    /\ Running
    /\ mainPc = "parked"
    /\ mainPc' = "case timeout"
    /\ logged' = <<>>
    /\ UNCHANGED <<fwdPc, readyCh, errCh, fwdErr, rendered, exitCode, outsideCli>>

\* main.go lines 178-179
ReadyBranch ==
    /\ Running
    /\ mainPc = "case readyCh"
    /\ logged' = <<LogEntry("INFO", "Port-forwarding is ready", "")>>
    /\ mainPc' = "NewGateway"
    /\ UNCHANGED <<fwdPc, readyCh, errCh, fwdErr, rendered, exitCode, outsideCli>>

\* main.go lines 180-182
TimeoutBranch ==
    /\ Running
    /\ mainPc = "case timeout"
    /\ logged' = <<LogEntry("ERROR", "Port-forwarding timed out", "")>>
    /\ Exit(1)
    /\ UNCHANGED <<fwdPc, readyCh, errCh, fwdErr, rendered, outsideCli>>

\* main.go lines 183-185
ErrorBranch ==
    /\ Running
    /\ mainPc = "case errCh"
    /\ errCh' = Tail(errCh)
    /\ logged' = <<LogEntry("ERROR", "Error during port-forward setup", "")>>
    /\ Exit(1)
    /\ UNCHANGED <<fwdPc, readyCh, fwdErr, rendered, outsideCli>>

\* main.go lines 188-193
NewGateway ==
    \E ok \in BOOLEAN :
        /\ Running
        /\ mainPc = "NewGateway"
        /\ IF ok THEN /\ mainPc' = "CalculateForDeployment"
                      /\ logged' = <<>>
                      /\ UNCHANGED exitCode
                 ELSE /\ logged' = <<LogEntry("ERROR", "Failed to create Prometheus gateway", "")>>
                      /\ Exit(1)
        /\ UNCHANGED <<fwdPc, readyCh, errCh, fwdErr, rendered, outsideCli>>

\* main.go lines 195-209: the analysis
Analyze ==
    \E ok \in BOOLEAN :
        /\ Running
        /\ mainPc = "CalculateForDeployment"
        /\ IF ok THEN /\ mainPc' = "Render"
                      /\ exitCode' = exitCode
                      /\ logged' = <<LogEntry("INFO", "Analyzing deployment", "")>>
                 ELSE /\ logged' = <<LogEntry("INFO", "Analyzing deployment", ""),
                                      LogEntry("ERROR", "Calculation error", "")>>
                      /\ Exit(1)
        /\ UNCHANGED <<fwdPc, readyCh, errCh, fwdErr, rendered, outsideCli>>

\* main.go lines 211-217: the recommendations are rendered and main returns
Render ==
    \E ok \in BOOLEAN :
        /\ Running
        /\ mainPc = "Render"
        /\ IF ok THEN /\ rendered' = TRUE
                      /\ Exit(0)
                      /\ logged' = <<>>
                 ELSE /\ logged' = <<LogEntry("ERROR", "Rendering error", "")>>
                      /\ Exit(1)
                      /\ UNCHANGED rendered
        /\ UNCHANGED <<fwdPc, readyCh, errCh, fwdErr, outsideCli>>

\* main.go lines 165-168: the channels are made
CliInit ==
    /\ EngineIdle
    /\ GatewayIdle
    /\ logged = <<>>
    /\ PromIdle
    /\ EscalationIdle
    /\ mainPc = "go"
    /\ fwdPc = "idle"
    /\ readyCh = "open"
    /\ errCh = <<>>
    /\ fwdErr = NoError
    /\ rendered = FALSE
    /\ exitCode = -1

CliNext ==
    \/ GoPortForward
    \/ ServicesGet
    \/ PodsList
    \/ RoundTripperFor
    \/ PortForwardNew
    \/ ForwardPortsReady
    \/ ForwardPortsFails
    \/ SendError
    \/ SelectPolls
    \/ SelectParks
    \/ TimerFires
    \/ ReadyBranch
    \/ TimeoutBranch
    \/ ErrorBranch
    \/ NewGateway
    \/ Analyze
    \/ Render

CliSpec == CliInit /\ [][CliNext]_vars

----------------------------------------------------------------------------
(* Vocabulary of the properties *)

Range(s) == {s[i] : i \in 1..Len(s)}
Names(s) == [i \in 1..Len(s) |-> s[i].ContainerName]
Max(a, b) == IF a >= b THEN a ELSE b
I64Max(x, y) == IF I64Less(x, y) THEN y ELSE x

\* the int64 x as a plain integer, for |x| < 2^28
I64Magnitude(x) == IF I64IsNeg(x) THEN I64Neg(x) ELSE x
I64IsSmall(x) ==
    /\ I64Magnitude(x)[3] = 0
    /\ I64Magnitude(x)[4] = 0
    /\ I64Magnitude(x)[2] < 2 ^ 12
I64ToInt(x) ==
    IF I64IsNeg(x) THEN -(I64Magnitude(x)[1] + I64Magnitude(x)[2] * LimbBase)
    ELSE I64Magnitude(x)[1] + I64Magnitude(x)[2] * LimbBase

MiB(n) == I64(n * 1024 * 1024)

Done == pc = "done"

\* every recommendation of a main / an init container built so far
MainBuilt ==
    (IF half = "main" THEN Range(finalRecommendations) ELSE {})
    \cup Range(mainRecs.items) \cup Range(allRecs.MainContainers.items)
InitBuilt ==
    (IF half = "init" THEN Range(finalRecommendations) ELSE {})
    \cup Range(initRecs.items) \cup Range(allRecs.InitContainers.items)

\* the list of main recommendations the running or finished main half holds
MainList == IF finalRecommendations # <<>> THEN finalRecommendations ELSE mainRecs.items
\* its latest entry
LastMain == MainList[Len(MainList)].Recommendation

\* the step that appends the recommendation of a main container
AppendsMain == pc = "GetCPUMedianMetrics" /\ calls' # calls
\* the step in which GetDeployment answers, with or without an error
DeploymentAnswers == pc = "GetDeployment" /\ calls' # calls
\* the step in which the running half returns to its caller
HalfReturns == pc # "done" /\ (pc' = "done" \/ half' # half)

FailedGetDeployment(a) == a.call = "GetDeployment" /\ a.answer.err

----------------------------------------------------------------------------
(* C1 *)

\* C1: every NamedRecommendation built by CalculateForDeployment,
\* CalculateForInitContainers or CalculateForAll has CPU.Limit >= CPU.Request,
\* whatever the collaborators answered.
C1_LimitAtLeastRequest ==
    \A n \in MainBuilt \cup InitBuilt :
        n.Recommendation.CPU.Limit >= n.Recommendation.CPU.Request

\* a returned main recommendation whose limit sits exactly on a request above
\* the limit floor, next to an init recommendation
C1_Witness ==
    /\ Done
    /\ op = "CalculateForAll"
    /\ \E n \in Range(allRecs.MainContainers.items) :
          /\ n.Recommendation.CPU.Request > minCPULimitMilli
          /\ n.Recommendation.CPU.Limit = n.Recommendation.CPU.Request
    /\ allRecs.InitContainers.items # <<>>

----------------------------------------------------------------------------
(* C2 *)

----------------------------------------------------------------------------
(* C3 *)

\* the OOM branch of the appending step left the memory query of this
\* container out and took the CPU request from p90
C3_BranchFrame ==
    /\ LastMain'.IsOOMKilled
    /\ \A i \in 1..Len(calls') :
          calls'[i].container = containersToAnalyze[idx]
             => calls'[i].call # "GetMemoryMetrics"
    /\ LastMain'.CPU.Request = Max(minCPURequestMilli, (cpuP90.num * 1000) \div cpuP90.den)

\* C3 as stated: a kill with a recorded limit L gives IsOOMKilled and
\* Memory = floor(L * 1.5) for every L.
C3_Original ==
    [][ (AppendsMain /\ isOOM /\ ~currentLimit.nil)
          => /\ C3_BranchFrame
             /\ LastMain'.Memory = I64((currentLimit.value * 3) \div 2) ]_vars

\* C3 amended: a kill with a recorded limit L gives IsOOMKilled and
\* Memory = max(64 MiB, floor(L * 1.5)); the memory metric is not queried and
\* the CPU request still comes from p90.
C3_OOMEscalation ==
    [][ (AppendsMain /\ isOOM /\ ~currentLimit.nil)
          => /\ C3_BranchFrame
             /\ LastMain'.Memory = I64Max(MiB(64), I64((currentLimit.value * 3) \div 2)) ]_vars

\* a killed container with an odd limit of 256 MiB + 1 got floor(1.5 L), and
\* one with a limit of 32 MiB got the 64 MiB floor
C3_Witness ==
    /\ Done
    /\ \E n \in Range(mainRecs.items) :
          n.Recommendation.IsOOMKilled /\ n.Recommendation.Memory = I64(402653185)
    /\ \E n \in Range(mainRecs.items) :
          n.Recommendation.IsOOMKilled /\ n.Recommendation.Memory = MiB(64)

----------------------------------------------------------------------------
(* C4 *)

\* (trunc(f) * 120) div 100 on int64: through plain integers where the
\* product fits them ((x * 120) div 100 = (x * 6) div 5), on the limbs otherwise
C4_Buffered(f) ==
    IF I64IsSmall(Int64OfFloat(f))
      THEN I64(TruncDiv(I64ToInt(Int64OfFloat(f)) * 6, 5))
      ELSE I64DivSmall(I64MulSmall(Int64OfFloat(f), 120), 100)

----------------------------------------------------------------------------
(* C5 *)

\* p50 > 0 and p99 / p50 > 2.0, on the fractions num/den
C5_RatioAboveTwo(p99, p50) ==
    p50.num > 0 /\ p99.num * p50.den > 2 * p50.num * p99.den

\* floor(p99 * 1.25 * 1000) when spiky, floor(p99 * 1000) otherwise
C5_Candidate(p99, p50) ==
    IF C5_RatioAboveTwo(p99, p50)
      THEN (p99.num * 1250) \div p99.den
      ELSE (p99.num * 1000) \div p99.den

\* C5: SpikinessWarning is set, and the limit before the floors is
\* floor(p99 * 1.25 * 1000), exactly when p50 > 0 and p99/p50 > 2.0; in every
\* other case (a ratio of exactly 2.0, p50 <= 0) there is no warning and the
\* limit before the floors is floor(p99 * 1000).
C5_Spikiness ==
    [][ AppendsMain
          => /\ LastMain'.CPU.SpikinessWarning
                   = C5_RatioAboveTwo(cpuP99, resp'.answer.value)
             /\ LastMain'.CPU.Limit
                   = Max(Max(C5_Candidate(cpuP99, resp'.answer.value), minCPULimitMilli),
                         LastMain'.CPU.Request) ]_vars

\* a spiky container (17/128 cores at p99: limit 166m) and, in the same call,
\* one without the warning whose limit is the 100m floor
C5_Witness ==
    /\ Done
    /\ \E n \in Range(mainRecs.items) :
          n.Recommendation.CPU.SpikinessWarning /\ n.Recommendation.CPU.Limit = 166
    /\ \E n \in Range(mainRecs.items) :
          ~n.Recommendation.CPU.SpikinessWarning /\ n.Recommendation.CPU.Limit = 100

----------------------------------------------------------------------------
(* C6 *)

----------------------------------------------------------------------------
(* C7 *)

----------------------------------------------------------------------------
(* C8 *)

\* the list the running half looks the target up in
C8_Declared == Range(IF half = "main" THEN deployment.Containers
                                      ELSE deployment.InitContainers)

\* C8: a non-empty target that is not declared in the list being analyzed
\* gives an empty result, no error and no OOM or metric query; a declared
\* target gives exactly that one container; hence CalculateForAll with a
\* target declared among the main containers returns one main recommendation
\* and an empty init list.
C8_TargetSelection ==
    [][ /\ (DeploymentAnswers /\ ~FailedGetDeployment(resp')
               /\ targetContainerName # "" /\ targetContainerName \notin C8_Declared)
           => /\ HalfReturns
              /\ (IF half = "main" THEN mainRecs' ELSE initRecs') = Slice(<<>>)
              /\ err' = NoError
              /\ calls' = Append(calls, Call("GetDeployment", ""))
        /\ (DeploymentAnswers /\ ~FailedGetDeployment(resp')
               /\ targetContainerName \in C8_Declared)
           => /\ ~HalfReturns
              /\ containersToAnalyze' = <<targetContainerName>>
        /\ (HalfReturns /\ targetContainerName \in C8_Declared
               /\ ~FailedGetDeployment(resp'))
           => /\ Names((IF half = "main" THEN mainRecs' ELSE initRecs').items)
                    = <<targetContainerName>>
              /\ \A i \in 1..Len(calls') :
                    calls'[i].container \in {"", targetContainerName}
        /\ (Done' /\ op = "CalculateForAll" /\ err' = NoError
               /\ targetContainerName \in Range(deployment.Containers))
           => /\ ~allRecs'.nil
              /\ Names(allRecs'.MainContainers.items) = <<targetContainerName>>
              /\ allRecs'.InitContainers = Slice(<<>>) ]_vars

\* CalculateForAll with the target "app" on a deployment with two main
\* containers and an init container
C8_Witness ==
    /\ Done
    /\ op = "CalculateForAll"
    /\ targetContainerName = "app"
    /\ deployment.Containers = <<"sidecar", "app">>
    /\ deployment.InitContainers # <<>>
    /\ Names(allRecs.MainContainers.items) = <<"app">>
    /\ allRecs.InitContainers = Slice(<<>>)
    /\ Len(calls) = 7

----------------------------------------------------------------------------
(* C9 *)

\* the call ended right after a successful GetDeployment because the target
\* is declared nowhere in the deployment or the examined list is empty
C9_NothingToExamine ==
    /\ Done
    /\ resp.call = "GetDeployment" /\ ~resp.answer.err
    /\ \/ /\ targetContainerName # ""
          /\ targetContainerName \notin Range(deployment.Containers)
          /\ targetContainerName \notin Range(deployment.InitContainers)
       \/ /\ op = "CalculateForDeployment" /\ deployment.Containers = <<>>
       \/ /\ op = "CalculateForInitContainers" /\ deployment.InitContainers = <<>>

\* C9 as stated: a target that does not exist, or a deployment without
\* containers to examine, is surfaced to the caller as an error.
C9_Original == C9_NothingToExamine => err # NoError

\* the result the caller holds is empty and not nil
C9_EmptyResult ==
    CASE op = "CalculateForDeployment" -> mainRecs = Slice(<<>>)
      [] op = "CalculateForInitContainers" -> initRecs = Slice(<<>>)
      [] OTHER -> /\ allRecs.MainContainers = Slice(<<>>)
                  /\ allRecs.InitContainers = Slice(<<>>)
                  /\ ~allRecs.nil

\* C9 amended: a target that does not exist, or a deployment without
\* containers to examine, is not an error: the operation returns an empty
\* result and a nil error; the call fails only when GetDeployment fails.
C9_EmptyIsNotAnError ==
    /\ C9_NothingToExamine => (err = NoError /\ C9_EmptyResult)
    /\ Done => (err # NoError <=> (resp.call = "GetDeployment" /\ resp.answer.err))

\* the target "ghost" on a deployment with containers ended without an error
C9_Witness ==
    /\ C9_NothingToExamine
    /\ targetContainerName = "ghost"
    /\ deployment.Containers # <<>>
    /\ err = NoError

----------------------------------------------------------------------------
(* C10 *)

\* C10: when GetDeployment fails, the sub-calculation returns an error and
\* no recommendations, and no collaborator is called after the failure.
C10_DeploymentFailureIsFatal ==
    [][ /\ (DeploymentAnswers /\ FailedGetDeployment(resp'))
           => /\ Done'
              /\ err' # NoError
              /\ (IF half = "main" THEN mainRecs' ELSE initRecs') = NilSlice
              /\ allRecs'.nil
              /\ calls' = Append(calls, Call("GetDeployment", ""))
        /\ ~(Done /\ FailedGetDeployment(resp)) ]_vars

\* CalculateForInitContainers failed on its only call
C10_Witness ==
    /\ Done
    /\ op = "CalculateForInitContainers"
    /\ FailedGetDeployment(resp)
    /\ err # NoError
    /\ initRecs = NilSlice
    /\ Len(calls) = 1

----------------------------------------------------------------------------
(* C11 *)

MetricQueries ==
    {"GetMemoryMetrics", "GetCPURequestMetrics", "GetCPULimitMetrics",
     "GetCPUMedianMetrics", "GetInitContainerMemoryMetrics"}

\* the step in which a metric query answers with an error
MetricQueryFails ==
    calls' # calls /\ resp'.call \in MetricQueries /\ resp'.answer.err

\* what the running half returns in this step
Returned == IF half = "main" THEN mainRecs' ELSE initRecs'

\* C11: once the deployment is resolved, a metric query that answers with an
\* error does not end the batch: no error is returned, the recommendations
\* built so far are kept, the loop goes on to the remaining containers, and
\* every return from the loop carries a nil error and one recommendation per
\* analyzed container, in order.
C11_MetricErrorsAreLocal ==
    [][ /\ MetricQueryFails
           => /\ err' = NoError
              /\ IF HalfReturns
                   THEN Names(Returned.items) = containersToAnalyze
                   ELSE /\ containersToAnalyze' = containersToAnalyze
                        /\ idx' \in {idx, idx + 1}
                        /\ idx' <= Len(containersToAnalyze)
                        /\ Names(finalRecommendations')
                              = SubSeq(containersToAnalyze, 1, idx' - 1)
        /\ (HalfReturns /\ containersToAnalyze # <<>>)
           => /\ err' = NoError
              /\ ~Returned.nil
              /\ Names(Returned.items) = containersToAnalyze ]_vars

\* the median query of the first of two containers failed, and the engine
\* kept that container's recommendation and went on to the second one
C11_Witness ==
    /\ pc = "CheckForOOMKilledEvents"
    /\ resp.call = "GetCPUMedianMetrics" /\ resp.answer.err
    /\ containersToAnalyze = <<"sidecar", "app">>
    /\ idx = 2
    /\ Names(finalRecommendations) = <<"sidecar">>
    /\ err = NoError

----------------------------------------------------------------------------
(* C12 *)

\* the list of init recommendations the running or finished init half holds
InitList == IF finalRecommendations # <<>> THEN finalRecommendations ELSE initRecs.items
\* its latest entry
LastInit == InitList[Len(InitList)].Recommendation

\* the step in which the query named q answers with an error
QueryFails(q) == calls' # calls /\ resp'.call = q /\ resp'.answer.err

\* C12 as stated: a metric query that answers with an error counts as zero,
\* whatever value comes with the error: the memory before the floor is 0 (so
\* 64 MiB after it), the CPU percentiles are 0 (so 50m and 100m), a failed
\* median raises no spikiness warning, and an init container gets 128 MiB.
C12_Original ==
    [][ /\ QueryFails("GetMemoryMetrics") => memRecommendation' = I64Zero
        /\ QueryFails("GetCPURequestMetrics") => cpuP90' = Cores(0)
        /\ QueryFails("GetCPULimitMetrics") => cpuP99' = Cores(0)
        /\ QueryFails("GetCPUMedianMetrics") => ~LastMain'.CPU.SpikinessWarning
        /\ QueryFails("GetInitContainerMemoryMetrics") => LastInit'.Memory = MiB(128)
      ]_vars

----------------------------------------------------------------------------
(* C13 *)

\* C13 as stated: an OOM check that answers with an error is not propagated
\* and counts as no OOM signal, whatever boolean and limit come with the
\* error: the container is not marked OOM-killed and its memory is derived
\* from the p99 memory query, which is the next call.
C13_Original ==
    [][ QueryFails("CheckForOOMKilledEvents")
          => /\ err' = NoError
             /\ ~isOOM'
             /\ pc' = "GetMemoryMetrics" ]_vars

----------------------------------------------------------------------------
(* C14 *)

\* C14 as stated: the OOM signal is specific to the container asked about:
\* the engine sees isOOM = true for the container it analyzes only if that
\* container was OOM-killed in some pod; when only another container of the
\* pod was killed, it is not marked and its memory comes from its metrics.
C14_Original ==
    (k8sPc = "idle" /\ resp.call = "CheckForOOMKilledEvents")
      => IF \E i \in 1..Len(podList) : podList[i].oomKilled = k8sTarget
           THEN TRUE
           ELSE ~isOOM /\ pc = "GetMemoryMetrics"

----------------------------------------------------------------------------
(* C15 *)

\* C15: every recommendation of an init container has CPU request 100m, CPU
\* limit 1000m, IsOOMKilled = false and SpikinessWarning = false, whatever the
\* memory query answers, and the init half calls nothing but GetDeployment
\* and the maximum-memory query: no OOM check, no CPU percentile query.
C15_InitFixedCPU ==
    [][ /\ \A n \in InitBuilt' :
              /\ n.Recommendation.CPU.Request = 100
              /\ n.Recommendation.CPU.Limit = 1000
              /\ ~n.Recommendation.CPU.SpikinessWarning
              /\ ~n.Recommendation.IsOOMKilled
        /\ (half = "init" /\ calls' # calls)
           => /\ Len(calls') = Len(calls) + 1
              /\ calls'[Len(calls')].call
                    \in {"GetDeployment", "GetInitContainerMemoryMetrics"} ]_vars

\* CalculateForInitContainers returned the recommendation of "init-setup"
\* after two calls, with a memory taken from a positive metric
C15_Witness ==
    /\ Done
    /\ op = "CalculateForInitContainers"
    /\ Names(initRecs.items) = <<"init-setup">>
    /\ initRecs.items[1].Recommendation.CPU
          = [Request |-> 100, Limit |-> 1000, SpikinessWarning |-> FALSE]
    /\ initRecs.items[1].Recommendation.Memory = I64(120586240)
    /\ Len(calls) = 2

----------------------------------------------------------------------------
(* C16 *)

\* (trunc(m) * 115) div 100 on plain integers, for 0 <= trunc(m) < 2^28
C16_Buffered(f) ==
    LET whole == I64ToInt(Int64OfFloat(f))
    IN  I64(whole + (whole * 3) \div 20)

\* the step in which the maximum-memory query of an init container answers
InitQueryAnswers == pc = "GetInitContainerMemoryMetrics" /\ calls' # calls

\* C16: with m the value the maximum-memory query returned for an init
\* container, the memory is (trunc(m) * 115) div 100 when m > 0 and exactly
\* 128 MiB when m <= 0; there is no 64 MiB floor, so a small positive m gives
\* a memory below 64 MiB.
C16_InitMemory ==
    [][ InitQueryAnswers
          => LET m == resp'.answer.value
             IN  IF ~m.neg /\ (m.mag # I64Zero \/ m.half)
                   THEN /\ I64IsSmall(m.mag)
                        /\ LastInit'.Memory = C16_Buffered(m)
                   ELSE LastInit'.Memory = MiB(128) ]_vars

\* CalculateForAll returned an init container whose query answered
\* 104857600 without error: 120586240 bytes
C16_Witness ==
    /\ Done
    /\ op = "CalculateForAll"
    /\ resp.call = "GetInitContainerMemoryMetrics" /\ ~resp.answer.err
    /\ resp.answer.value = Bytes(FALSE, I64(104857600), FALSE)
    /\ ~allRecs.nil
    /\ allRecs.InitContainers.items[1].Recommendation.Memory = I64(120586240)

----------------------------------------------------------------------------
(* C17 *)

\* C17 as stated: when the maximum-memory metric m of an init container is
\* positive, the recommended memory is never below m; otherwise it is the
\* 128 MiB default.
C17_Original ==
    [][ InitQueryAnswers
          => LET m == resp'.answer.value
             IN  IF ~m.neg /\ (m.mag # I64Zero \/ m.half)
                   THEN /\ I64Leq(m.mag, LastInit'.Memory)
                        /\ m.half => LastInit'.Memory # m.mag
                   ELSE LastInit'.Memory = MiB(128) ]_vars

----------------------------------------------------------------------------
(* C18 *)

\* C18: CalculateForAll fails exactly when a sub-calculation fails, which is
\* when its GetDeployment fails: it then returns a nil *AllRecommendations
\* and an error that names the half; the main half runs first and the init
\* half is not started after a main failure. Otherwise MainContainers and
\* InitContainers are the two sub-results, an empty one being an empty,
\* non-nil sequence.
C18_AllOrNothing ==
    [][ (op = "CalculateForAll" /\ HalfReturns)
          => /\ half = "main"
                => IF FailedGetDeployment(resp')
                     THEN /\ Done'
                          /\ allRecs'.nil
                          /\ err' = <<"error calculating main container recommendations",
                                      "could not get deployment", "gateway error">>
                          /\ Len(calls') = 1
                     ELSE /\ pc' = "GetDeployment"
                          /\ half' = "init"
                          /\ err' = NoError
                          /\ ~mainRecs'.nil
             /\ half = "init"
                => /\ Done'
                   /\ IF FailedGetDeployment(resp')
                        THEN /\ allRecs'.nil
                             /\ err' = <<"error calculating init container recommendations",
                                         "could not get deployment", "gateway error">>
                        ELSE /\ err' = NoError
                             /\ ~initRecs'.nil
                             /\ allRecs' = [nil |-> FALSE, MainContainers |-> mainRecs,
                                            InitContainers |-> initRecs'] ]_vars

\* the main half returned a recommendation, the init half failed to resolve
\* the deployment, and the caller got the init error and no partial result
C18_Witness ==
    /\ Done
    /\ op = "CalculateForAll"
    /\ half = "init"
    /\ FailedGetDeployment(resp)
    /\ Len(mainRecs.items) > 0
    /\ allRecs.nil
    /\ err[1] = "error calculating init container recommendations"

----------------------------------------------------------------------------
(* C19 *)

\* C19: when the OOM check reports a kill without a previous limit, the
\* memory is exactly 512 MiB (536870912 bytes) and IsOOMKilled is true; the
\* memory metric is not queried, so the result does not depend on it.
C19_OOMFallback ==
    [][ /\ ( /\ pc = "CheckForOOMKilledEvents" /\ calls' # calls
             /\ resp'.answer.isOOM /\ resp'.answer.limit.nil )
           => /\ memRecommendation' = I64(536870912)
              /\ isOOM'
              /\ pc' = "GetCPURequestMetrics"
        /\ (AppendsMain /\ isOOM /\ currentLimit.nil)
           => /\ LastMain'.Memory = I64(536870912)
              /\ LastMain'.IsOOMKilled
              /\ \A i \in 1..Len(calls') :
                    calls'[i].container = containersToAnalyze[idx]
                      => calls'[i].call # "GetMemoryMetrics" ]_vars

\* a killed container without a recorded limit was returned with 512 MiB
C19_Witness ==
    /\ Done
    /\ \E n \in Range(mainRecs.items) :
          n.Recommendation.IsOOMKilled /\ n.Recommendation.Memory = I64(536870912)

----------------------------------------------------------------------------
(* C21 *)

\* the executeQuery call has returned
QueryReturned == promPc = "returned"

\* C21: a query that has returned gave (0, no error) for an empty vector or a
\* NaN or infinite first sample, an error together with the value 0 for a
\* failed query or a result that is not a vector, and the value of the first
\* sample without error otherwise; the value next to an error is always 0.
C21_ZeroWhenAbsent ==
    QueryReturned =>
        /\ (apiReply.err \/ apiReply.type # "vector")
              => promResult.err # NoError /\ promResult.value = Number(0)
        /\ (~apiReply.err /\ apiReply.type = "vector")
              => /\ promResult.err = NoError
                 /\ promResult.value =
                        IF Len(apiReply.vector) = 0
                             \/ apiReply.vector[1].kind \in {"NaN", "+Inf", "-Inf"}
                          THEN Number(0)
                          ELSE apiReply.vector[1]
        /\ promResult.err # NoError => promResult.value = Number(0)

\* a query whose first sample is negative infinity, followed by a number, has
\* returned
C21_Witness ==
    /\ QueryReturned
    /\ ~apiReply.err
    /\ apiReply.type = "vector"
    /\ apiReply.vector = <<NegInf, Number(1024)>>

----------------------------------------------------------------------------
(* C22 *)

\* the run in which the only collaborator call after the resolution of the
\* deployment is the maximum-memory query of one init container, which failed
OnlyQueryFailed ==
    /\ op = "CalculateForInitContainers"
    /\ Done
    /\ Len(calls) = 2
    /\ resp.call = "GetInitContainerMemoryMetrics"
    /\ resp.answer.err

C22_Completes ==
    OnlyQueryFailed =>
        /\ err = NoError
        /\ ~initRecs.nil
        /\ Names(initRecs.items) = <<calls[2].container>>


----------------------------------------------------------------------------
(* C23 *)

\* the entry of lines 401-406 for the container c
RaisedToRequest(c) ==
    LogEntry("INFO", "Calculated CPU limit is below the CPU request, applying CPU request as limit.", c)

----------------------------------------------------------------------------
(* C24 *)

----------------------------------------------------------------------------
(* C26 *)

\* the main containers the call analyzes, in declaration order
C26_Selected ==
    IF targetContainerName = "" THEN deployment.Containers ELSE <<targetContainerName>>

\* C26: the engine issues its collaborator calls one at a time and in a fixed
\* order: GetDeployment first; then, container by container in declaration
\* order, the OOM check, the p99 memory query exactly when the check reported
\* no OOM, and the CPU queries p90, p99, p50; the first call for the next
\* container follows the p50 query of the previous one.
C26_CallOrder ==
    [][ (calls' # calls /\ half = "main")
          => /\ Len(calls') = Len(calls) + 1
             /\ SubSeq(calls', 1, Len(calls)) = calls
             /\ LET new == calls'[Len(calls')]
                IN  IF calls = <<>>
                      THEN new = Call("GetDeployment", "")
                      ELSE LET prev == calls[Len(calls)]
                           IN  CASE prev.call = "GetDeployment" ->
                                      new = Call("CheckForOOMKilledEvents", C26_Selected[1])
                                 [] prev.call = "CheckForOOMKilledEvents" ->
                                      new = Call(IF resp.answer.isOOM
                                                   THEN "GetCPURequestMetrics"
                                                   ELSE "GetMemoryMetrics", prev.container)
                                 [] prev.call = "GetMemoryMetrics" ->
                                      new = Call("GetCPURequestMetrics", prev.container)
                                 [] prev.call = "GetCPURequestMetrics" ->
                                      new = Call("GetCPULimitMetrics", prev.container)
                                 [] prev.call = "GetCPULimitMetrics" ->
                                      new = Call("GetCPUMedianMetrics", prev.container)
                                 [] prev.call = "GetCPUMedianMetrics" ->
                                      /\ prev.container = C26_Selected[idx - 1]
                                      /\ new = Call("CheckForOOMKilledEvents",
                                                    C26_Selected[idx])
                                 [] OTHER -> FALSE ]_vars

\* the ten calls of a batch of two containers, the first one OOM-killed
C26_Witness ==
    /\ Done
    /\ op = "CalculateForDeployment"
    /\ calls = <<Call("GetDeployment", ""),
                 Call("CheckForOOMKilledEvents", "sidecar"),
                 Call("GetCPURequestMetrics", "sidecar"),
                 Call("GetCPULimitMetrics", "sidecar"),
                 Call("GetCPUMedianMetrics", "sidecar"),
                 Call("CheckForOOMKilledEvents", "app"),
                 Call("GetMemoryMetrics", "app"),
                 Call("GetCPURequestMetrics", "app"),
                 Call("GetCPULimitMetrics", "app"),
                 Call("GetCPUMedianMetrics", "app")>>


----------------------------------------------------------------------------
(* C27 *)

\* C27 as stated: the step in which a metric query answers with an error
\* writes a warning entry to the log.
C27_Original ==
    [][ MetricQueryFails => \E e \in Range(logged') : e.level = "WARN" ]_vars


----------------------------------------------------------------------------
(* C28 *)

\* C28 as stated: the memory recommended for an OOM-killed container with
\* the recorded limit L > 0 is strictly greater than L, after the truncation
\* and the floor.
C28_Original ==
    (escPc = "done" /\ I64Less(I64Zero, escLimit)) => I64Less(escLimit, escMemory)

\* the same, for the limits whose escalation is inside the int64 range
C28_InRange ==
    (escPc = "done" /\ I64Less(I64Zero, escLimit)
        /\ I64Less(escLimit, I64MulSmall(I64Pow2(61), 3)))
      => I64Less(escLimit, escMemory)


----------------------------------------------------------------------------
(* C29 *)

\* C29 as stated: without an OOM signal, for a p99 memory usage that is not
\* negative, the memory recommended (the buffered value, raised to the 64 MiB
\* floor) is at least the usage truncated to whole bytes.
C29_Original ==
    [][ (pc = "GetMemoryMetrics" /\ calls' # calls
            /\ ~resp'.answer.err /\ ~resp'.answer.value.neg)
          => I64Leq(Int64OfFloat(resp'.answer.value),
                    I64Max(MiB(64), memRecommendation')) ]_vars

\* the same, for a usage below 2^56 bytes
C29_InRange ==
    [][ (pc = "GetMemoryMetrics" /\ calls' # calls
            /\ ~resp'.answer.err /\ ~resp'.answer.value.neg
            /\ I64Less(Int64OfFloat(resp'.answer.value), I64Pow2(56)))
          => I64Leq(Int64OfFloat(resp'.answer.value),
                    I64Max(MiB(64), memRecommendation')) ]_vars


----------------------------------------------------------------------------
(* C30 *)

\* main is past its select on the way to the analysis, or has rendered
C30_Analyzing ==
    mainPc \in {"NewGateway", "CalculateForDeployment", "Render"} \/ rendered

\* main has taken the timeout case or the error case of its select
C30_Failing == mainPc \in {"case timeout", "case errCh"}

\* C30: main goes on to the analysis only after readyCh was closed; when the
\* goroutine's error or the timer arrives before that, main takes a failing
\* case, from which the process can only exit with status 1 and nothing
\* rendered; and the goroutine that holds an error can always send it,
\* wherever main stands.
C30_ReadyGate ==
    [][ /\ C30_Analyzing' => readyCh' = "closed"
        /\ (mainPc \in {"select", "parked"} /\ mainPc' \notin {"select", "parked"}
               /\ readyCh' = "open")
           => C30_Failing'
        /\ (C30_Failing /\ mainPc' # mainPc)
           => mainPc' = "exited" /\ exitCode' = 1 /\ ~rendered'
        /\ (C30_Failing \/ exitCode = 1) => ~rendered'
        /\ (Running /\ fwdPc = "returned") => ENABLED SendError ]_vars

\* the connection was lost after main had taken the ready case: the goroutine
\* has sent its error, nobody receives it, and the process has rendered the
\* recommendations and returned
C30_Witness ==
    /\ rendered
    /\ exitCode = 0
    /\ fwdPc = "done"
    /\ errCh # <<>>


============================================================================
